---- MODULE Spec2Model ----
(***************************************************************************)
(* PREVIS: observability of a star with the VLTI and CHARA instruments     *)
(* (previs/instr.py) and the survey aggregation built on it                *)
(* (previs/display.py).                                                    *)
(*                                                                         *)
(* Magnitudes are floating-point numbers in the program.  Here they are    *)
(* integers counting hundredths of a magnitude (4.2 is 420, -0.35 is -35), *)
(* which represents every literal threshold of the program exactly, plus   *)
(* the not-a-number value NaN, for which every comparison is false.        *)
(* Fluxes are integers counting milli-Jansky.                              *)
(***************************************************************************)
EXTENDS Integers, Sequences, FiniteSets, TLC

VARIABLES
    fn,      \* the function being called
    mag,     \* its magnitude arguments, by band (V, R, H, K, L, M, N)
    source,  \* matisse_limit: the source argument
    check,   \* matisse_limit: the check argument
    page,    \* what the ESO web page holds when it is fetched
    cache,   \* files/eso_limits_matisse.dpy: a limit table, or NoFile
    survey,  \* count_survey: the survey collection, a sequence of records
    args,    \* the arguments of the other functions, by parameter name
    calls,   \* the limit_ESO_matisse_web calls made so far, oldest first
    ret,     \* the outcome of the call: [raised, val]
    pc       \* "call" before the function runs, "done" after

vars == <<fn, mag, source, check, page, cache, survey, args, calls, ret, pc>>

(***************************************************************************)
(* Bounds of the model.                                                    *)
(***************************************************************************)
\* Magnitudes are probed within Span hundredths on both sides of every threshold.
Span == 1
\* Longest list of guide star candidates in a survey record.
MaxCand == 1

(***************************************************************************)
(* Floating-point comparisons.                                             *)
(***************************************************************************)
\* np.nan: outside the range of every magnitude of the model.
NaN == 1000000

Le(a, b) == a # NaN /\ b # NaN /\ a <= b
Ge(a, b) == a # NaN /\ b # NaN /\ a >= b
Gt(a, b) == a # NaN /\ b # NaN /\ a > b

\* np.min of two values: not-a-number propagates.
NpMinIgnoreNaN(a, b) ==
    IF a = NaN THEN b ELSE IF b = NaN THEN a ELSE IF a <= b THEN a ELSE b
NpMin(a, b) ==
    IF a = NaN \/ b = NaN THEN NaN ELSE IF a <= b THEN a ELSE b

Returned(v) == [raised |-> FALSE, val |-> v]
Raised == [raised |-> TRUE, val |-> "exception"]
NoRet == [raised |-> FALSE, val |-> "none"]

(***************************************************************************)
(* gravity_limit                                                           *)
(***************************************************************************)
\* Variant: the AT bound exclusive.
gravity_V_cond_exclusive(magV) ==
    IF Le(magV, 1099) THEN "AT"
    ELSE IF Le(magV, 1600) THEN "UT"
    ELSE "TooFaint"
gravity_V_cond(magV) ==
    IF Le(magV, 1100) THEN "AT"
    ELSE IF Gt(magV, 1100) /\ Le(magV, 1600) THEN "UT"
    ELSE "TooFaint"

\* Variant: the lower bound of the brightest bin exclusive.
gravity_K_exclusive(magK) ==
    IF Gt(magK, -400) /\ Le(magK, -100)
        THEN [UT |-> [MR |-> FALSE, HR |-> FALSE], AT |-> [MR |-> FALSE, HR |-> TRUE]]
    ELSE IF Gt(magK, -100) /\ Le(magK, 100)
        THEN [UT |-> [MR |-> FALSE, HR |-> FALSE], AT |-> [MR |-> TRUE, HR |-> TRUE]]
    ELSE IF Gt(magK, 100) /\ Le(magK, 400)
        THEN [UT |-> [MR |-> FALSE, HR |-> TRUE], AT |-> [MR |-> TRUE, HR |-> TRUE]]
    ELSE IF Gt(magK, 400) /\ Le(magK, 800)
        THEN [UT |-> [MR |-> TRUE, HR |-> TRUE], AT |-> [MR |-> TRUE, HR |-> TRUE]]
    ELSE IF Gt(magK, 800) /\ Le(magK, 900)
        THEN [UT |-> [MR |-> TRUE, HR |-> TRUE], AT |-> [MR |-> FALSE, HR |-> FALSE]]
    ELSE [UT |-> [MR |-> FALSE, HR |-> FALSE], AT |-> [MR |-> FALSE, HR |-> FALSE]]

\* Variant: the UT range extended over the faintest bin, for the ATs as well.
gravity_K_merged(magK) ==
    IF Ge(magK, -400) /\ Le(magK, -100)
        THEN [UT |-> [MR |-> FALSE, HR |-> FALSE], AT |-> [MR |-> FALSE, HR |-> TRUE]]
    ELSE IF Gt(magK, -100) /\ Le(magK, 100)
        THEN [UT |-> [MR |-> FALSE, HR |-> FALSE], AT |-> [MR |-> TRUE, HR |-> TRUE]]
    ELSE IF Gt(magK, 100) /\ Le(magK, 400)
        THEN [UT |-> [MR |-> FALSE, HR |-> TRUE], AT |-> [MR |-> TRUE, HR |-> TRUE]]
    ELSE IF Gt(magK, 400) /\ Le(magK, 900)
        THEN [UT |-> [MR |-> TRUE, HR |-> TRUE], AT |-> [MR |-> TRUE, HR |-> TRUE]]
    ELSE [UT |-> [MR |-> FALSE, HR |-> FALSE], AT |-> [MR |-> FALSE, HR |-> FALSE]]

gravity_K(magK) ==
    IF Ge(magK, -400) /\ Le(magK, -100)
        THEN [UT |-> [MR |-> FALSE, HR |-> FALSE], AT |-> [MR |-> FALSE, HR |-> TRUE]]
    ELSE IF Gt(magK, -100) /\ Le(magK, 100)
        THEN [UT |-> [MR |-> FALSE, HR |-> FALSE], AT |-> [MR |-> TRUE, HR |-> TRUE]]
    ELSE IF Gt(magK, 100) /\ Le(magK, 400)
        THEN [UT |-> [MR |-> FALSE, HR |-> TRUE], AT |-> [MR |-> TRUE, HR |-> TRUE]]
    ELSE IF Gt(magK, 400) /\ Le(magK, 800)
        THEN [UT |-> [MR |-> TRUE, HR |-> TRUE], AT |-> [MR |-> TRUE, HR |-> TRUE]]
    ELSE IF Gt(magK, 800) /\ Le(magK, 900)
        THEN [UT |-> [MR |-> TRUE, HR |-> TRUE], AT |-> [MR |-> FALSE, HR |-> FALSE]]
    ELSE [UT |-> [MR |-> FALSE, HR |-> FALSE], AT |-> [MR |-> FALSE, HR |-> FALSE]]

gravity_limit(magV, magK) ==
    [UT |-> [K |-> gravity_K(magK).UT],
     AT |-> [K |-> gravity_K(magK).AT],
     V_cond |-> gravity_V_cond(magV)]

(***************************************************************************)
(* pionier_limit                                                           *)
(***************************************************************************)
\* Variant: a visible magnitude is asked for as well.
pionier_limit_needs_V(magH, magV) ==
    [H |-> (Ge(magH, -100) /\ Le(magH, 900) /\ Le(magV, 1600))]
pionier_limit(magH, magV) ==
    [H |-> (Ge(magH, -100) /\ Le(magH, 900))]

(***************************************************************************)
(* chara_limit                                                             *)
(***************************************************************************)
\* Variant: the minimum taken over the magnitudes that are numbers (np.nanmin).
chara_Guiding_any(magV, magR) == Le(NpMinIgnoreNaN(magV, magR), 1000)
chara_Guiding(magV, magR) == Le(NpMin(magV, magR), 1000)

\* Variant: the CLIMB ceiling exclusive.
chara_ceilings_strict(magK, magH, magR, magV) ==
    [CLASSIC |-> [K |-> Le(magK, 650), H |-> Le(magH, 700), V |-> Le(magV, 1000)],
     CLIMB   |-> [K |-> magK # NaN /\ magK < 600],
     PAVO    |-> [R |-> Le(magR, 700)],
     MIRC    |-> [H |-> Le(magH, 650), K |-> Le(magK, 300)],
     MYSTIC  |-> [K |-> Le(magK, 600)],
     VEGA    |-> [HR |-> Le(magV, 420), MR |-> Le(magV, 580), LR |-> Le(magV, 720)]]
chara_ceilings(magK, magH, magR, magV) ==
    [CLASSIC |-> [K |-> Le(magK, 650), H |-> Le(magH, 700), V |-> Le(magV, 1000)],
     CLIMB   |-> [K |-> Le(magK, 600)],
     PAVO    |-> [R |-> Le(magR, 700)],
     MIRC    |-> [H |-> Le(magH, 650), K |-> Le(magK, 300)],
     MYSTIC  |-> [K |-> Le(magK, 600)],
     VEGA    |-> [HR |-> Le(magV, 420), MR |-> Le(magV, 580), LR |-> Le(magV, 720)]]

chara_limit(magK, magH, magR, magV) ==
    [PAVO    |-> chara_ceilings(magK, magH, magR, magV).PAVO,
     CLASSIC |-> chara_ceilings(magK, magH, magR, magV).CLASSIC,
     CLIMB   |-> chara_ceilings(magK, magH, magR, magV).CLIMB,
     MIRC    |-> chara_ceilings(magK, magH, magR, magV).MIRC,
     MYSTIC  |-> chara_ceilings(magK, magH, magR, magV).MYSTIC,
     VEGA    |-> chara_ceilings(magK, magH, magR, magV).VEGA,
     Guiding |-> chara_Guiding(magV, magR)]

(***************************************************************************)
(* MagToJy, reverse direction, and the MATISSE limit tables                *)
(***************************************************************************)
\* The bands of conv_flux, and conv_flux[band]['F0'] in milli-Jansky.
conv_flux == {"B", "V", "R", "I", "J", "H", "K", "L", "M", "N", "Q"}
conv_flux_F0(band) ==
    CASE band = "B" -> 4260000 [] band = "V" -> 3540000 [] band = "R" -> 3080000
      [] band = "I" -> 2550000 [] band = "J" -> 1630000 [] band = "H" -> 1050000
      [] band = "K" -> 655000  [] band = "L" -> 276000  [] band = "M" -> 160000
      [] band = "N" -> 42700   [] band = "Q" -> 9700

\* -2.5 * log10(m / F0) in hundredths of a magnitude: 250 per decade of flux.
\* Integer arithmetic resolves whole decades; the pages of the model hold
\* positive fluxes that are F0 divided or multiplied by a power of ten.
RECURSIVE MagToJy_reverse(_, _)
MagToJy_reverse(m, band) ==
    IF m * 10 <= conv_flux_F0(band) THEN 250 + MagToJy_reverse(m * 10, band)
    ELSE IF m >= conv_flux_F0(band) * 10 THEN MagToJy_reverse(m \div 10, band) - 250
    ELSE 0

\* F0 * 10**(m / -2.5) in milli-Jansky, for a magnitude of whole decades.
RECURSIVE MagToJy_forward(_, _)
MagToJy_forward(m, band) ==
    IF m > 0 THEN MagToJy_forward(m - 250, band) \div 10
    ELSE IF m < 0 THEN MagToJy_forward(m + 250, band) * 10
    ELSE conv_flux_F0(band)

\* The floating-point value +inf.
Inf == 2000000

\* MagToJy as the caller sees it.  Forward, the bare except turns the KeyError
\* of an unknown band into NaN.  Reverse, nothing is caught: an unknown band
\* raises KeyError, and numpy's log10 gives NaN for a negative ratio and -inf
\* for zero, which -2.5 turns into +inf.
MagToJy(m, band, reverse) ==
    IF ~reverse
        THEN IF band \notin conv_flux \/ m = NaN THEN Returned(NaN)
             ELSE Returned(MagToJy_forward(m, band))
    ELSE IF band \notin conv_flux THEN Raised
    ELSE IF m = NaN \/ m < 0 THEN Returned(NaN)
    ELSE IF m = 0 THEN Returned(Inf)
    ELSE Returned(MagToJy_reverse(m, band))
MapReverse(fluxes, band) ==
    [i \in 1..Len(fluxes) |-> MagToJy_reverse(fluxes[i], band)]

\* dic_web, assembled from the cells of the three tables of the page.
\* Python's index i of an array is index i + 1 of a sequence.
dic_web(p) ==
    [at |-> [noft |-> [L |-> MapReverse(<<p.at_lim_good[1], p.at_lim_good[3],
                                          p.at_lim_good_rel[4]>>, "L"),
                       M |-> MapReverse(<<p.at_lim_good[2], p.at_lim_good_rel[3]>>, "M"),
                       N |-> MapReverse(<<p.at_lim_good[5], p.at_lim_good_rel[5]>>, "N")],
             ft   |-> [L |-> MapReverse(<<p.at_L_gra4mat[1], p.at_L_gra4mat[2],
                                          p.at_L_gra4mat[3]>>, "L"),
                       M |-> MapReverse(<<p.at_M_gra4mat[1], p.at_M_gra4mat[2]>>, "M"),
                       N |-> <<>>]],
     ut |-> [noft |-> [L |-> MapReverse(<<p.ut_lim_good[1], p.ut_lim_good_rel[2],
                                          p.ut_lim_good_rel[4]>>, "L"),
                       M |-> MapReverse(<<p.ut_lim_good[2], p.ut_lim_good_rel[3]>>, "M"),
                       N |-> MapReverse(<<p.ut_lim_good[5], p.ut_lim_good_rel[5]>>, "N")],
             ft   |-> [L |-> <<>>, M |-> <<>>, N |-> <<>>]]]

limit_commissioning_matisse ==
    [at |-> [noft |-> [L |-> <<420, 90, -150>>, M |-> <<324, 100>>, N |-> <<-35, -220>>],
             ft   |-> [L |-> <<770, 610, 420>>, M |-> <<524, 160>>, N |-> <<160, 10>>]],
     ut |-> [noft |-> [L |-> <<700, 370, 130>>, M |-> <<603, 383>>, N |-> <<270, 80>>],
             ft   |-> [L |-> <<1030, 880, 690>>, M |-> <<500, 500>>, N |-> <<460, 320>>]]]

\* The cache file: present with a table, or absent.
NoTable ==
    [at |-> [noft |-> [L |-> <<>>, M |-> <<>>, N |-> <<>>],
             ft   |-> [L |-> <<>>, M |-> <<>>, N |-> <<>>]],
     ut |-> [noft |-> [L |-> <<>>, M |-> <<>>, N |-> <<>>],
             ft   |-> [L |-> <<>>, M |-> <<>>, N |-> <<>>]]]
NoFile == [present |-> FALSE, table |-> NoTable]
File(t) == [present |-> TRUE, table |-> t]

\* Variant: the file is opened for writing before the page is fetched, so that
\* a failing refresh leaves no table behind.
limit_ESO_matisse_web_open_first(chk, p, file) ==
    IF chk
        THEN IF p.ok
                THEN [raised |-> FALSE, val |-> dic_web(p), cache |-> File(dic_web(p))]
                ELSE [raised |-> TRUE, val |-> NoTable, cache |-> NoFile]
        ELSE IF file.present
                THEN [raised |-> FALSE, val |-> file.table, cache |-> file]
                ELSE [raised |-> TRUE, val |-> NoTable, cache |-> file]
\* limit_ESO_matisse_web(check): [raised, val, cache], cache being the file after
\* the call.  A fetch or parse failure raises before the file is opened.
limit_ESO_matisse_web(chk, p, file) ==
    IF chk
        THEN IF p.ok
                THEN [raised |-> FALSE, val |-> dic_web(p), cache |-> File(dic_web(p))]
                ELSE [raised |-> TRUE, val |-> NoTable, cache |-> file]
        ELSE IF file.present
                THEN [raised |-> FALSE, val |-> file.table, cache |-> file]
                ELSE [raised |-> TRUE, val |-> NoTable, cache |-> file]

(***************************************************************************)
(* matisse_limit                                                           *)
(***************************************************************************)
Tels == {"AT", "UT"}
Modes == {"ft", "noft"}
MatBands == {"L", "M", "N"}
LowerKey(tel) == IF tel = "AT" THEN "at" ELSE "ut"

\* Fringe tracker K band limit.
\* Variant: the two telescope classes exchanged in the middle range.
limK_gated(magK) ==
    IF Le(magK, 750) THEN [UT |-> TRUE, AT |-> TRUE]
    ELSE IF Gt(magK, 750) /\ Le(magK, 1000) THEN [UT |-> FALSE, AT |-> TRUE]
    ELSE [UT |-> FALSE, AT |-> FALSE]
limK(magK) ==
    IF Le(magK, 750) THEN [UT |-> TRUE, AT |-> TRUE]
    ELSE IF Gt(magK, 750) /\ Le(magK, 1000) THEN [UT |-> TRUE, AT |-> FALSE]
    ELSE [UT |-> FALSE, AT |-> FALSE]

\* The list a slot is compared against (the successive values of lim).
\* Variant: an empty list replaced by the commissioning list without fringe tracking.
\* Variant: the lists of the two fringe-tracking modes exchanged.
lim_modes_exchanged(dic_limit, tel, ft, band) ==
    dic_limit[LowerKey(tel)][IF ft = "ft" THEN "noft" ELSE "ft"][band]
lim_fallback_noft(dic_limit, tel, ft, band) ==
    IF tel = "UT" /\ ft = "ft" /\ band = "L"
        THEN limit_commissioning_matisse.ut.ft.L
    ELSE IF (tel = "UT" /\ ft = "ft" /\ band \in {"M", "N"})
            \/ (tel = "AT" /\ ft = "ft" /\ band = "N")
        THEN IF Len(dic_limit[LowerKey(tel)][ft][band]) = 0
                THEN limit_commissioning_matisse[LowerKey(tel)]["noft"][band]
                ELSE dic_limit[LowerKey(tel)][ft][band]
    ELSE dic_limit[LowerKey(tel)][ft][band]
lim(dic_limit, tel, ft, band) ==
    IF tel = "UT" /\ ft = "ft" /\ band = "L"
        THEN limit_commissioning_matisse.ut.ft.L
    ELSE IF (tel = "UT" /\ ft = "ft" /\ band \in {"M", "N"})
            \/ (tel = "AT" /\ ft = "ft" /\ band = "N")
        THEN IF Len(dic_limit[LowerKey(tel)][ft][band]) = 0
                THEN limit_commissioning_matisse[LowerKey(tel)][ft][band]
                ELSE dic_limit[LowerKey(tel)][ft][band]
    ELSE dic_limit[LowerKey(tel)][ft][band]

\* The L band block: three tiers, the comparisons on l[2], l[1], l[0] of the code.
\* Variant: the medium-resolution boundary exclusive.
BlockL_strict(m, l) ==
    IF Le(m, l[3]) THEN [LR |-> TRUE, MR |-> TRUE, HR |-> TRUE]
    ELSE IF Gt(m, l[3]) /\ m # NaN /\ m < l[2] THEN [LR |-> TRUE, MR |-> TRUE, HR |-> FALSE]
    ELSE IF Gt(m, l[2]) /\ Le(m, l[1]) THEN [LR |-> TRUE, MR |-> FALSE, HR |-> FALSE]
    ELSE [LR |-> FALSE, MR |-> FALSE, HR |-> FALSE]
BlockL(m, l) ==
    IF Le(m, l[3]) THEN [LR |-> TRUE, MR |-> TRUE, HR |-> TRUE]
    ELSE IF Gt(m, l[3]) /\ Le(m, l[2]) THEN [LR |-> TRUE, MR |-> TRUE, HR |-> FALSE]
    ELSE IF Gt(m, l[2]) /\ Le(m, l[1]) THEN [LR |-> TRUE, MR |-> FALSE, HR |-> FALSE]
    ELSE [LR |-> FALSE, MR |-> FALSE, HR |-> FALSE]

\* Variant: the middle tier grants the high resolution instead of the low one.
BlockMN_high_first(m, l) ==
    IF Le(m, l[2]) THEN [LR |-> TRUE, HR |-> TRUE]
    ELSE IF Gt(m, l[2]) /\ Le(m, l[1]) THEN [LR |-> FALSE, HR |-> TRUE]
    ELSE [LR |-> FALSE, HR |-> FALSE]
\* The M and N band block: two tiers, the comparisons on l[1], l[0] of the code.
BlockMN(m, l) ==
    IF Le(m, l[2]) THEN [LR |-> TRUE, HR |-> TRUE]
    ELSE IF Gt(m, l[2]) /\ Le(m, l[1]) THEN [LR |-> TRUE, HR |-> FALSE]
    ELSE [LR |-> FALSE, HR |-> FALSE]

\* The M band block of UT with fringe tracking: one comparison, on l[0].
BlockUTftM(m, l) ==
    IF Le(m, l[1]) THEN [LR |-> TRUE, HR |-> TRUE]
    ELSE [LR |-> FALSE, HR |-> FALSE]

\* The highest index a slot's block reads, counted as a length.
Needs(tel, ft, band) ==
    IF band = "L" THEN 3
    ELSE IF tel = "UT" /\ ft = "ft" /\ band = "M" THEN 1
    ELSE 2

MagOf(band, magL, magM, magN) ==
    IF band = "L" THEN magL ELSE IF band = "M" THEN magM ELSE magN

Leaves(dic_limit, tel, ft, band, m) ==
    IF band = "L" THEN BlockL(m, lim(dic_limit, tel, ft, band))
    ELSE IF tel = "UT" /\ ft = "ft" /\ band = "M"
        THEN BlockUTftM(m, lim(dic_limit, tel, ft, band))
    ELSE BlockMN(m, lim(dic_limit, tel, ft, band))

\* An index past the end of a list raises IndexError.
IndexError(dic_limit) ==
    \E tel \in Tels, ft \in Modes, band \in MatBands :
        Len(lim(dic_limit, tel, ft, band)) < Needs(tel, ft, band)

\* Variant: the fringe-tracking leaves multiplied by the K band gate.
matisse_dic_gated(magL, magM, magN, magK, dic_limit) ==
    [AT |-> [ft \in Modes |-> [band \in MatBands |->
                LET v == Leaves(dic_limit, "AT", ft, band, MagOf(band, magL, magM, magN))
                IN  [res \in DOMAIN v |-> v[res] /\ (ft = "noft" \/ limK(magK).AT)]]],
     UT |-> [ft \in Modes |-> [band \in MatBands |->
                LET v == Leaves(dic_limit, "UT", ft, band, MagOf(band, magL, magM, magN))
                IN  [res \in DOMAIN v |-> v[res] /\ (ft = "noft" \/ limK(magK).UT)]]],
     limK |-> limK(magK)]

\* The body of matisse_limit once dic_limit is chosen.
matisse_dic(magL, magM, magN, magK, dic_limit) ==
    [AT |-> [ft \in Modes |-> [band \in MatBands |->
                Leaves(dic_limit, "AT", ft, band, MagOf(band, magL, magM, magN))]],
     UT |-> [ft \in Modes |-> [band \in MatBands |->
                Leaves(dic_limit, "UT", ft, band, MagOf(band, magL, magM, magN))]],
     limK |-> limK(magK)]

\* matisse_limit: [raised, val, cache].
matisse_limit(magL, magM, magN, magK, src, chk, p, file) ==
    LET web == limit_ESO_matisse_web(chk, p, file)
        dic_limit == IF src = "ESO" THEN web.val ELSE limit_commissioning_matisse
        after == IF src = "ESO" THEN web.cache ELSE file
    IN  IF src = "ESO" /\ web.raised
            THEN [raised |-> TRUE, val |-> "exception", cache |-> after]
        ELSE IF IndexError(dic_limit)
            THEN [raised |-> TRUE, val |-> "exception", cache |-> after]
        ELSE [raised |-> FALSE,
              val |-> matisse_dic(magL, magM, magN, magK, dic_limit),
              cache |-> after]

(***************************************************************************)
(* The inputs of the model.                                                *)
(***************************************************************************)
Near(S) == {t + d : t \in S, d \in -Span..Span}
Mags(V, R, H, K, L, M, N) ==
    [V |-> V, R |-> R, H |-> H, K |-> K, L |-> L, M |-> M, N |-> N]
NoMags == Mags(NaN, NaN, NaN, NaN, NaN, NaN, NaN)
\* The value of the magnitudes a call does not probe.
Coarse == {500, NaN}

\* Two readings of the ESO page, and a fetch or parse that fails.
Page1 ==
    [ok |-> TRUE,
     at_lim_good     |-> <<2760, 16000, 27600, 27600, 4270>>,
     ut_lim_good     |-> <<276, 1600, 2760, 2760, 427>>,
     at_lim_good_rel |-> <<27600, 276000, 160000, 276000, 42700>>,
     ut_lim_good_rel |-> <<2760, 2760, 16000, 27600, 4270>>,
     at_L_gra4mat    |-> <<276, 2760, 27600>>,
     at_M_gra4mat    |-> <<1600, 16000>>]
\* A page whose limits are not ordered from faint to bright.
Page2 ==
    [ok |-> TRUE,
     at_lim_good     |-> <<27600, 160000, 2760, 2760, 42700>>,
     ut_lim_good     |-> <<2760, 16000, 276, 276, 4270>>,
     at_lim_good_rel |-> <<2760, 2760, 1600, 276000, 427>>,
     ut_lim_good_rel |-> <<276, 276000, 160, 276, 42700>>,
     at_L_gra4mat    |-> <<27600, 276, 2760>>,
     at_M_gra4mat    |-> <<160000, 1600>>]
NoPage ==
    [ok |-> FALSE,
     at_lim_good |-> <<>>, ut_lim_good |-> <<>>, at_lim_good_rel |-> <<>>,
     ut_lim_good_rel |-> <<>>, at_L_gra4mat |-> <<>>, at_M_gra4mat |-> <<>>]
Pages == {Page1, Page2, NoPage}

\* The cache file is read as it is found (pickle.load): besides the tables this
\* version writes, a file left by another version of the package, in which
\* every slot is commissioned, and one in which no fringe-tracking slot is.
FullTable ==
    [at |-> [noft |-> [L |-> <<410, 100, -140>>, M |-> <<330, 110>>, N |-> <<-30, -210>>],
             ft   |-> [L |-> <<760, 620, 430>>, M |-> <<530, 170>>, N |-> <<150, 20>>]],
     ut |-> [noft |-> [L |-> <<710, 360, 140>>, M |-> <<610, 390>>, N |-> <<280, 70>>],
             ft   |-> [L |-> <<1040, 870, 680>>, M |-> <<600, 400>>, N |-> <<450, 330>>]]]
NoFtTable ==
    [at |-> [noft |-> [L |-> <<410, 100, -140>>, M |-> <<330, 110>>, N |-> <<-30, -210>>],
             ft   |-> [L |-> <<>>, M |-> <<>>, N |-> <<>>]],
     ut |-> [noft |-> [L |-> <<710, 360, 140>>, M |-> <<610, 390>>, N |-> <<280, 70>>],
             ft   |-> [L |-> <<>>, M |-> <<>>, N |-> <<>>]]]
CacheFiles ==
    {NoFile, File(dic_web(Page1)), File(dic_web(Page2)), File(FullTable), File(NoFtTable)}

Range(f) == {f[i] : i \in DOMAIN f}
Breaks(t) ==
    UNION {Range(t[k][ft][band]) : k \in {"at", "ut"}, ft \in Modes, band \in MatBands}
MatisseBreaks ==
    Breaks(limit_commissioning_matisse) \cup Breaks(dic_web(Page1))
        \cup Breaks(dic_web(Page2)) \cup Breaks(FullTable) \cup {750, 1000}
Fine == Near(MatisseBreaks) \cup {NaN}

GravityMags ==
    {Mags(v, NaN, NaN, k, NaN, NaN, NaN) :
        v \in Near({1100, 1600}) \cup {NaN},
        k \in Near({-400, -100, 100, 400, 800, 900}) \cup {NaN}}
PionierMags ==
    {Mags(v, NaN, h, NaN, NaN, NaN, NaN) :
        v \in Coarse, h \in Near({-100, 900}) \cup {NaN}}
CharaMags ==
    {Mags(v, r, c, c, NaN, NaN, NaN) :
        v \in Near({420, 580, 720, 1000}) \cup {NaN},
        r \in Near({700, 1000}) \cup {NaN}, c \in Coarse}
    \cup {Mags(c, c, h, k, NaN, NaN, NaN) :
        h \in Near({650, 700}) \cup {NaN},
        k \in Near({300, 600, 650}) \cup {NaN}, c \in Coarse}
MatisseMags ==
    {Mags(NaN, NaN, NaN, c, m, c, c) : m \in Fine, c \in Coarse}
    \cup {Mags(NaN, NaN, NaN, c, c, m, c) : m \in Fine, c \in Coarse}
    \cup {Mags(NaN, NaN, NaN, c, c, c, m) : m \in Fine, c \in Coarse}
    \cup {Mags(NaN, NaN, NaN, m, c, c, c) : m \in Fine, c \in Coarse}

\* What a call of the calculators leaves alone in the model's inputs.
NoSurvey == <<>>
NoArgs == [none |-> TRUE]
NoCalls == <<>>

InitGravity ==
    /\ fn = "gravity_limit" /\ mag \in GravityMags
    /\ source = "commissioning" /\ check = FALSE /\ page = NoPage /\ cache = NoFile
InitPionier ==
    /\ fn = "pionier_limit" /\ mag \in PionierMags
    /\ source = "commissioning" /\ check = FALSE /\ page = NoPage /\ cache = NoFile
InitChara ==
    /\ fn = "chara_limit" /\ mag \in CharaMags
    /\ source = "commissioning" /\ check = FALSE /\ page = NoPage /\ cache = NoFile
InitMatisse ==
    /\ fn = "matisse_limit" /\ mag \in MatisseMags
    /\ \/ source = "commissioning" /\ check = TRUE /\ page = NoPage
          /\ cache \in {NoFile, File(FullTable)}
       \/ source = "ESO" /\ check = TRUE /\ page \in Pages
          /\ cache \in {NoFile, File(FullTable)}
       \/ source = "ESO" /\ check = FALSE /\ page = NoPage /\ cache \in CacheFiles

Init ==
    /\ InitGravity \/ InitPionier \/ InitChara \/ InitMatisse
    /\ survey = NoSurvey /\ args = NoArgs /\ calls = NoCalls
    /\ ret = NoRet
    /\ pc = "call"

GravityLimit ==
    /\ pc = "call" /\ fn = "gravity_limit"
    /\ ret' = Returned(gravity_limit(mag.V, mag.K))
    /\ pc' = "done"
    /\ UNCHANGED <<fn, mag, source, check, page, cache, survey, args, calls>>

PionierLimit ==
    /\ pc = "call" /\ fn = "pionier_limit"
    /\ ret' = Returned(pionier_limit(mag.H, mag.V))
    /\ pc' = "done"
    /\ UNCHANGED <<fn, mag, source, check, page, cache, survey, args, calls>>

CharaLimit ==
    /\ pc = "call" /\ fn = "chara_limit"
    /\ ret' = Returned(chara_limit(mag.K, mag.H, mag.R, mag.V))
    /\ pc' = "done"
    /\ UNCHANGED <<fn, mag, source, check, page, cache, survey, args, calls>>

MatisseLimit ==
    /\ pc = "call" /\ fn = "matisse_limit"
    /\ LET r == matisse_limit(mag.L, mag.M, mag.N, mag.K, source, check, page, cache)
       IN  /\ ret' = [raised |-> r.raised, val |-> r.val]
           /\ cache' = r.cache
    /\ pc' = "done"
    /\ UNCHANGED <<fn, mag, source, check, page, survey, args, calls>>

Next == GravityLimit \/ PionierLimit \/ CharaLimit \/ MatisseLimit

Spec == Init /\ [][Next]_vars

(***************************************************************************)
(* Calls of MagToJy                                                        *)
(***************************************************************************)
\* Magnitudes of whole decades of flux, and for each band the fluxes they
\* convert to, next to the degenerate fluxes 0 and -1 Jy.
DecadeMags == {-250, 0, 250, 500}
DegenerateFluxes == {0, -1000, NaN}
Bands == conv_flux \cup {"X"}
FluxArgs ==
    {[m |-> m, band |-> band, reverse |-> FALSE] :
        m \in DecadeMags \cup {NaN}, band \in Bands}
    \cup {[m |-> MagToJy_forward(m, band), band |-> band, reverse |-> TRUE] :
        m \in DecadeMags, band \in conv_flux}
    \cup {[m |-> m, band |-> band, reverse |-> TRUE] :
        m \in DegenerateFluxes, band \in Bands}
    \cup {[m |-> m, band |-> "X", reverse |-> TRUE] : m \in {1000, 10000}}

InitFlux ==
    /\ fn = "MagToJy" /\ args \in FluxArgs
    /\ mag = NoMags /\ source = "commissioning" /\ check = FALSE
    /\ page = NoPage /\ cache = NoFile
    /\ survey = NoSurvey /\ calls = NoCalls
    /\ ret = NoRet
    /\ pc = "call"

MagToJyCall ==
    /\ pc = "call" /\ fn = "MagToJy"
    /\ ret' = MagToJy(args.m, args.band, args.reverse)
    /\ pc' = "done"
    /\ UNCHANGED <<fn, mag, source, check, page, cache, survey, args, calls>>

NextFlux == MagToJyCall

FluxSpec == InitFlux /\ [][NextFlux]_vars
(***************************************************************************)
(* Sequences of limit_ESO_matisse_web calls                                *)
(*                                                                         *)
(* The calls follow the cache file of an installation from the time it has *)
(* no file yet.  Each call is recorded in calls with its argument, whether *)
(* the page could be fetched and parsed, and its outcome.                  *)
(***************************************************************************)
MaxCalls == 4

InitCache ==
    /\ fn = "limit_ESO_matisse_web"
    /\ cache = NoFile /\ calls = NoCalls
    /\ check = FALSE /\ page = NoPage
    /\ mag = NoMags /\ source = "ESO" /\ survey = NoSurvey /\ args = NoArgs
    /\ ret = NoRet
    /\ pc = "call"

\* One call; the page matters to a refresh only.
WebCall(chk, p) ==
    /\ fn = "limit_ESO_matisse_web" /\ Len(calls) < MaxCalls
    /\ LET r == limit_ESO_matisse_web(chk, p, cache)
       IN  /\ ret' = [raised |-> r.raised, val |-> r.val]
           /\ cache' = r.cache
           /\ calls' = Append(calls, [check |-> chk, parsed |-> chk /\ p.ok,
                                      raised |-> r.raised, val |-> r.val])
    /\ check' = chk /\ page' = p
    /\ UNCHANGED <<fn, mag, source, survey, args, pc>>

Refresh == \E p \in Pages : WebCall(TRUE, p)
Load == WebCall(FALSE, NoPage)

NextCache == Refresh \/ Load

CacheSpec == InitCache /\ [][NextCache]_vars
(***************************************************************************)
(* count_survey                                                            *)
(*                                                                         *)
(* A survey is the sequence of its records in the order of the dictionary. *)
(* A record holds Name (its key), Simbad, SED (whether it is not None),    *)
(* Guiding_star as [kind, str, lists] (kind "none" for None, "str" for a   *)
(* string, "list" for a list of two lists), Observability and Ins          *)
(* (present = FALSE for None).                                             *)
(***************************************************************************)
EmptyCount ==
    [MATISSE |-> [tel \in Tels |-> [ft \in Modes |-> [band \in {"L", "N"} |->
                     [res \in {"LR", "HR"} |-> <<>>]]]],
     GRAVITY |-> [tel \in Tels |-> [res \in {"MR", "HR"} |-> <<>>]],
     PIONIER |-> <<>>,
     PAVO    |-> <<>>,
     CLASSIC |-> [V |-> <<>>, H |-> <<>>, K |-> <<>>],
     CLIMB   |-> <<>>,
     MYSTIC  |-> <<>>,
     MIRC    |-> [H |-> <<>>, K |-> <<>>],
     VEGA    |-> [LR |-> <<>>, MR |-> <<>>, HR |-> <<>>]]

\* The list, with the star appended when the condition holds.
AppendIf(cond, list, star) == IF cond THEN Append(list, star) ELSE list

\* Variant: the guide-availability condition left out.
add_vs_mode_matisse_no_guid(dic, rec, cond_VLTI, cond_guid) ==
    [dic EXCEPT !.MATISSE =
        [tel \in Tels |-> [ft \in Modes |-> [band \in {"L", "N"} |->
            [res \in {"LR", "HR"} |->
                AppendIf(cond_VLTI /\ rec.Ins.MATISSE[tel][ft][band][res],
                         @[tel][ft][band][res], rec.Name)]]]]]
add_vs_mode_matisse(dic, rec, cond_VLTI, cond_guid) ==
    [dic EXCEPT !.MATISSE =
        [tel \in Tels |-> [ft \in Modes |-> [band \in {"L", "N"} |->
            [res \in {"LR", "HR"} |->
                AppendIf(cond_VLTI /\ cond_guid /\ rec.Ins.MATISSE[tel][ft][band][res],
                         @[tel][ft][band][res], rec.Name)]]]]]

\* Variant: the site's observability left out.
add_vs_mode_gravity_any_site(dic, rec, cond_VLTI, cond_guid) ==
    [dic EXCEPT !.GRAVITY =
        [tel \in Tels |-> [res \in {"MR", "HR"} |->
            AppendIf(cond_guid /\ rec.Ins.GRAVITY[tel].K[res], @[tel][res], rec.Name)]]]
add_vs_mode_gravity(dic, rec, cond_VLTI, cond_guid) ==
    [dic EXCEPT !.GRAVITY =
        [tel \in Tels |-> [res \in {"MR", "HR"} |->
            AppendIf(cond_VLTI /\ cond_guid /\ rec.Ins.GRAVITY[tel].K[res],
                     @[tel][res], rec.Name)]]]

\* The guide-availability boolean of a Simbad-matched star.
guid(rec) ==
    IF rec.Guiding_star.kind = "list"
        THEN Len(rec.Guiding_star.lists[1]) > 0 \/ Len(rec.Guiding_star.lists[2]) > 0
    ELSE IF rec.Guiding_star.kind = "str" /\ rec.Guiding_star.str = "Science star"
        THEN TRUE
    ELSE FALSE

\* Variant: the tip-tilt condition left out of the CHARA buckets.
CountStar_no_tilt(dic, rec) ==
    LET cond_VLTI == rec.Observability.VLTI
        cond_guid == guid(rec)
        cond_CHARA == rec.Observability.CHARA
        d1 == add_vs_mode_matisse(dic, rec, cond_VLTI, cond_guid)
        d2 == add_vs_mode_gravity(d1, rec, cond_VLTI, cond_guid)
        ins == rec.Ins.CHARA
    IN  [d2 EXCEPT
            !.PIONIER = AppendIf(cond_VLTI /\ cond_guid /\ rec.Ins.PIONIER.H, @, rec.Name),
            !.MIRC = [band \in {"H", "K"} |->
                AppendIf(cond_CHARA /\ ins.MIRC[band], @[band], rec.Name)],
            !.VEGA = [res \in {"LR", "MR", "HR"} |->
                IF res = "MR" THEN @[res]
                ELSE AppendIf(cond_CHARA /\ ins.VEGA[res], @[res], rec.Name)],
            !.CLASSIC = [band \in {"V", "H", "K"} |->
                AppendIf(cond_CHARA /\ ins.CLASSIC[band], @[band], rec.Name)],
            !.PAVO = AppendIf(cond_CHARA /\ ins.PAVO.R, @, rec.Name),
            !.MYSTIC = AppendIf(cond_CHARA /\ ins.MYSTIC.K, @, rec.Name),
            !.CLIMB = AppendIf(cond_CHARA /\ ins.CLIMB.K, @, rec.Name)]
\* The body of the second loop for a Simbad-matched star.
CountStar(dic, rec) ==
    LET cond_VLTI == rec.Observability.VLTI
        cond_guid == guid(rec)
        cond_CHARA == rec.Observability.CHARA
        cond_tilt == rec.Ins.CHARA.Guiding
        d1 == add_vs_mode_matisse(dic, rec, cond_VLTI, cond_guid)
        d2 == add_vs_mode_gravity(d1, rec, cond_VLTI, cond_guid)
        ins == rec.Ins.CHARA
    IN  [d2 EXCEPT
            !.PIONIER = AppendIf(cond_VLTI /\ cond_guid /\ rec.Ins.PIONIER.H, @, rec.Name),
            !.MIRC = [band \in {"H", "K"} |->
                AppendIf(cond_CHARA /\ ins.MIRC[band] /\ cond_tilt, @[band], rec.Name)],
            !.VEGA = [res \in {"LR", "MR", "HR"} |->
                IF res = "MR" THEN @[res]
                ELSE AppendIf(cond_CHARA /\ ins.VEGA[res] /\ cond_tilt, @[res], rec.Name)],
            !.CLASSIC = [band \in {"V", "H", "K"} |->
                AppendIf(cond_CHARA /\ ins.CLASSIC[band] /\ cond_tilt, @[band], rec.Name)],
            !.PAVO = AppendIf(cond_CHARA /\ ins.PAVO.R /\ cond_tilt, @, rec.Name),
            !.MYSTIC = AppendIf(cond_CHARA /\ ins.MYSTIC.K /\ cond_tilt, @, rec.Name),
            !.CLIMB = AppendIf(cond_CHARA /\ ins.CLIMB.K /\ cond_tilt, @, rec.Name)]

\* Variant: every star goes through the buckets, whatever its Simbad flag.
RECURSIVE CountLoop_unfiltered(_, _, _, _)
CountLoop_unfiltered(sv, i, dic, list_no_simbad) ==
    IF i > Len(sv)
        THEN [raised |-> FALSE, dic |-> dic, list_no_simbad |-> list_no_simbad]
    ELSE IF ~sv[i].Ins.present
        THEN [raised |-> TRUE, dic |-> dic, list_no_simbad |-> list_no_simbad]
    ELSE CountLoop_unfiltered(sv, i + 1, CountStar(dic, sv[i]), list_no_simbad)
\* The second loop, from star i on: [raised, dic, list_no_simbad].  Only a
\* Simbad-matched star has its Ins and Guiding_star read; subscripting an Ins
\* that is None raises TypeError.
RECURSIVE CountLoop(_, _, _, _)
CountLoop(sv, i, dic, list_no_simbad) ==
    IF i > Len(sv)
        THEN [raised |-> FALSE, dic |-> dic, list_no_simbad |-> list_no_simbad]
    ELSE IF sv[i].Simbad
        THEN IF ~sv[i].Ins.present
                THEN [raised |-> TRUE, dic |-> dic, list_no_simbad |-> list_no_simbad]
                ELSE CountLoop(sv, i + 1, CountStar(dic, sv[i]), list_no_simbad)
        ELSE CountLoop(sv, i + 1, dic, Append(list_no_simbad, sv[i].Name))

\* Variant: a star counts whether or not its SED is there.
n_vlti_any_SED(sv) ==
    Cardinality({i \in 1..Len(sv) : sv[i].Simbad /\ sv[i].Observability.VLTI})
\* The first loop: n_vlti and n_chara.
n_vlti(sv) ==
    Cardinality({i \in 1..Len(sv) : sv[i].Simbad /\ sv[i].SED /\ sv[i].Observability.VLTI})
n_chara(sv) ==
    Cardinality({i \in 1..Len(sv) : sv[i].Simbad /\ sv[i].SED /\ sv[i].Observability.CHARA})

\* count_survey: the summary line divides by n_star and raises
\* ZeroDivisionError on an empty survey; percentages are kept as fractions.
count_survey(sv) ==
    IF Len(sv) = 0 \/ CountLoop(sv, 1, EmptyCount, <<>>).raised THEN Raised
    ELSE Returned(
        [n_star |-> Len(sv), n_vlti |-> n_vlti(sv), n_chara |-> n_chara(sv),
         pct_vlti |-> [num |-> 100 * n_vlti(sv), den |-> Len(sv)],
         pct_chara |-> [num |-> 100 * n_chara(sv), den |-> Len(sv)],
         dic |-> CountLoop(sv, 1, EmptyCount, <<>>).dic,
         list_no_simbad |-> CountLoop(sv, 1, EmptyCount, <<>>).list_no_simbad])

\* The surveys of the model.
StarNames == <<"A", "B">>
Candidates == {s \in {<<>>, <<"g1">>, <<"g1", "g2">>, <<"g1", "g2", "g3">>} : Len(s) <= MaxCand}
GuidingStars ==
    {[kind |-> "none", str |-> "", lists |-> <<<<>>, <<>>>>],
     [kind |-> "str", str |-> "Science star", lists |-> <<<<>>, <<>>>>]}
    \cup {[kind |-> "list", str |-> "", lists |-> <<a, b>>] : a, b \in Candidates}
\* The Ins tree the calculators give for a set of magnitudes.
InsOf(m) ==
    [present |-> TRUE,
     MATISSE |-> matisse_dic(m.L, m.M, m.N, m.K, limit_commissioning_matisse),
     GRAVITY |-> gravity_limit(m.V, m.K),
     PIONIER |-> pionier_limit(m.H, m.V),
     CHARA   |-> chara_limit(m.K, m.H, m.R, m.V)]
Profiles ==
    {Mags(0, 0, 0, 0, 0, 0, 0),
     Mags(500, 500, 950, 500, 500, 500, 500),
     Mags(1200, 1200, 0, 1200, 1200, 1200, 1200)}
NoIns == [InsOf(NoMags) EXCEPT !.present = FALSE]
Records(name) ==
    {[Name |-> name, Simbad |-> TRUE, SED |-> sed, Guiding_star |-> g,
      Observability |-> [VLTI |-> v, CHARA |-> c], Ins |-> InsOf(m)] :
        sed \in BOOLEAN, g \in GuidingStars, v \in BOOLEAN, c \in BOOLEAN, m \in Profiles}
    \cup {[Name |-> name, Simbad |-> FALSE, SED |-> sed,
           Guiding_star |-> [kind |-> "none", str |-> "", lists |-> <<<<>>, <<>>>>],
           Observability |-> [VLTI |-> FALSE, CHARA |-> FALSE], Ins |-> NoIns] :
        sed \in BOOLEAN}
Surveys ==
    {<<>>} \cup {<<a>> : a \in Records(StarNames[1])}
        \cup {<<a, b>> : a \in Records(StarNames[1]), b \in Records(StarNames[2])}

InitSurvey ==
    /\ fn = "count_survey" /\ survey \in Surveys
    /\ mag = NoMags /\ source = "commissioning" /\ check = FALSE
    /\ page = NoPage /\ cache = NoFile
    /\ args = NoArgs /\ calls = NoCalls
    /\ ret = NoRet
    /\ pc = "call"

CountSurvey ==
    /\ pc = "call" /\ fn = "count_survey"
    /\ ret' = count_survey(survey)
    /\ pc' = "done"
    /\ UNCHANGED <<fn, mag, source, check, page, cache, survey, args, calls>>

NextSurvey == CountSurvey

SurveySpec == InitSurvey /\ [][NextSurvey]_vars

(***************************************************************************)
(* plot_VLTI and plot_CHARA                                                *)
(*                                                                         *)
(* The argument is one record of the survey.  Besides the fields of        *)
(* count_survey it says in fields whether Gaia_dr2, Guiding_star,          *)
(* Observability and Mag can be subscripted ("full") or hold nothing       *)
(* ("bare"), in which case reading into them raises.  The outcome says     *)
(* whether a figure was created and returned, what was printed, which      *)
(* fields were read, and the colours chosen.                               *)
(***************************************************************************)
color(b) == IF b THEN "g" ELSE "#e23449"

NoMarkers == [none |-> TRUE]
PlotOut(raised, fig, printed, reads, aff_guide, c_guid, markers) ==
    [raised |-> raised,
     val |-> [fig |-> fig, printed |-> printed, reads |-> reads,
              aff_guide |-> aff_guide, c_guid |-> c_guid, markers |-> markers]]

\* The else branch of the test on data['Ins']: one line, and None.
not_in_Simbad(data) ==
    PlotOut(FALSE, FALSE, <<[line |-> "## Error: %s not in Simbad!", star |-> data.Name]>>,
            {"Name", "Ins"}, "", "", NoMarkers)

\* Variant: one try around the three markers, so that a missing resolution
\* ends the markers of the band.
plot_mat_one_try(data, tel, ft, band) ==
    [res \in {"LR", "MR", "HR"} |->
        IF res \in DOMAIN data.Ins.MATISSE[tel][ft][band]
           /\ (res = "HR" => "MR" \in DOMAIN data.Ins.MATISSE[tel][ft][band])
            THEN color(data.Ins.MATISSE[tel][ft][band][res] /\ data.Observability.VLTI)
            ELSE "no marker"]
\* plot_mat: a marker for each resolution the leaf set holds; the lookup of a
\* missing resolution raises KeyError inside its own try and is passed over.
plot_mat(data, tel, ft, band) ==
    [res \in {"LR", "MR", "HR"} |->
        IF res \in DOMAIN data.Ins.MATISSE[tel][ft][band]
            THEN color(data.Ins.MATISSE[tel][ft][band][res] /\ data.Observability.VLTI)
            ELSE "no marker"]

\* The guide-star label of plot_VLTI: [raised, label].  Any string gives
\* 'Science'.  For a list the code evaluates len(data['Guiding_star'][0] > 0):
\* the comparison of a list with 0 raises TypeError.
aff_guide(data) ==
    IF data.Guiding_star.kind = "str" THEN [raised |-> FALSE, label |-> "Science"]
    ELSE IF data.Guiding_star.kind = "list" THEN [raised |-> TRUE, label |-> ""]
    ELSE [raised |-> FALSE, label |-> "X"]

c_guid(label) ==
    IF label = "X" THEN "#ed929d"
    ELSE IF label = "Science" THEN "#8ee38e"
    ELSE "#fbe570"

VLTI_markers(data) ==
    [star |-> color(data.Observability.VLTI),
     MATISSE |-> [tel \in Tels |-> [ft \in Modes |-> [band \in MatBands |->
                     plot_mat(data, tel, ft, band)]]],
     GRAVITY |-> [tel \in Tels |-> [res \in {"MR", "HR"} |->
                     color(data.Ins.GRAVITY[tel].K[res] /\ data.Observability.VLTI)]],
     PIONIER |-> color(data.Ins.PIONIER.H /\ data.Observability.VLTI)]

\* plot_VLTI past the test on data['Ins'].
VLTI_diagram(data) ==
    IF data.fields = "bare"
        THEN PlotOut(TRUE, FALSE, <<>>, {"Name", "Ins", "Gaia_dr2"}, "", "", NoMarkers)
    ELSE IF aff_guide(data).raised
        THEN PlotOut(TRUE, FALSE, <<>>, {"Name", "Ins", "Gaia_dr2", "Guiding_star"},
                     "", "", NoMarkers)
    ELSE PlotOut(FALSE, TRUE, <<>>,
                 {"Name", "Ins", "Gaia_dr2", "Guiding_star", "Observability", "Mag"},
                 aff_guide(data).label, c_guid(aff_guide(data).label), VLTI_markers(data))

\* Variant: the Gaia entry is read before the test on data['Ins'].
plot_VLTI_Gaia_first(data) ==
    IF data.fields = "bare" \/ data.Ins.present THEN VLTI_diagram(data)
    ELSE not_in_Simbad(data)
plot_VLTI(data) ==
    IF data.Ins.present THEN VLTI_diagram(data) ELSE not_in_Simbad(data)

\* The markers of plot_CHARA.  ins['PAVO'] and ins['CLIMB'] are the
\* dictionaries {'R': ...} and {'K': ...}, which are true whatever they hold.
CHARA_markers(data) ==
    LET ins == data.Ins.CHARA
        cond == data.Observability.CHARA /\ ins.Guiding
    IN  [star |-> color(data.Observability.CHARA),
         VEGA |-> [res \in {"LR", "MR", "HR"} |-> color(ins.VEGA[res] /\ cond)],
         PAVO |-> color(cond),
         MIRC |-> color(ins.MIRC.H /\ cond),
         CLIMB |-> color(cond),
         CLASSIC |-> [band \in {"H", "K"} |-> color(ins.CLASSIC[band] /\ cond)]]

\* plot_CHARA past the test on data['Ins'].
CHARA_diagram(data) ==
    IF data.fields = "bare"
        THEN PlotOut(TRUE, FALSE, <<>>, {"Name", "Ins", "Observability"}, "", "", NoMarkers)
    ELSE PlotOut(FALSE, TRUE, <<>>, {"Name", "Ins", "Observability", "Mag"},
                 "Guiding/tip-tilt",
                 IF data.Ins.CHARA.Guiding THEN "#8ee38e" ELSE "#ed929d",
                 CHARA_markers(data))

plot_CHARA(data) ==
    IF data.Ins.present THEN CHARA_diagram(data) ELSE not_in_Simbad(data)

\* The records of the model: stars with an Ins tree, with every shape of
\* Guiding_star, and stars without.
OtherString == [kind |-> "str", str |-> "HD 1", lists |-> <<<<>>, <<>>>>]
\* Next to the profiles of the surveys, a star bright enough for tip-tilt and
\* too faint for PAVO and CLIMB.
PlotProfiles == Profiles \cup {Mags(800, 800, 950, 620, 1200, 1200, 1200)}
PlotRecords ==
    {[Name |-> "A", fields |-> "full", Guiding_star |-> g,
      Observability |-> [VLTI |-> v, CHARA |-> c], Ins |-> InsOf(m)] :
        g \in GuidingStars \cup {OtherString}, v \in BOOLEAN, c \in BOOLEAN,
        m \in PlotProfiles}
    \cup {[Name |-> "A", fields |-> f, Guiding_star |-> g,
           Observability |-> [VLTI |-> v, CHARA |-> c], Ins |-> NoIns] :
        f \in {"full", "bare"}, g \in GuidingStars \cup {OtherString},
        v \in BOOLEAN, c \in BOOLEAN}

InitPlot ==
    /\ fn \in {"plot_VLTI", "plot_CHARA"}
    /\ args \in {[data |-> d] : d \in PlotRecords}
    /\ mag = NoMags /\ source = "commissioning" /\ check = FALSE
    /\ page = NoPage /\ cache = NoFile
    /\ survey = NoSurvey /\ calls = NoCalls
    /\ ret = NoRet
    /\ pc = "call"

PlotVLTI ==
    /\ pc = "call" /\ fn = "plot_VLTI"
    /\ ret' = plot_VLTI(args.data)
    /\ pc' = "done"
    /\ UNCHANGED <<fn, mag, source, check, page, cache, survey, args, calls>>

PlotCHARA ==
    /\ pc = "call" /\ fn = "plot_CHARA"
    /\ ret' = plot_CHARA(args.data)
    /\ pc' = "done"
    /\ UNCHANGED <<fn, mag, source, check, page, cache, survey, args, calls>>

NextPlot == PlotVLTI \/ PlotCHARA

PlotSpec == InitPlot /\ [][NextPlot]_vars
(***************************************************************************)
(* plot_histo_survey                                                       *)
(*                                                                         *)
(* The argument dic is an aggregate made by count_survey.  The outcome     *)
(* holds ymax, the heights of the bars in the order they are drawn, and    *)
(* the upper limit given to the y axis.                                    *)
(***************************************************************************)
np_max(S) == CHOOSE x \in S : \A y \in S : y <= x

\* ymax: the largest of the L band counts with fringe tracking, the GRAVITY
\* MR and HR counts and seven of the other counts.
ymax(dic) ==
    np_max({Len(dic.MATISSE.AT.ft.L.LR), Len(dic.MATISSE.UT.ft.L.LR),
            Len(dic.GRAVITY.AT.MR), Len(dic.GRAVITY.UT.MR),
            Len(dic.GRAVITY.AT.HR), Len(dic.GRAVITY.UT.HR),
            Len(dic.PIONIER), Len(dic.VEGA.LR), Len(dic.CLIMB), Len(dic.CLASSIC.H),
            Len(dic.PAVO), Len(dic.MYSTIC), Len(dic.MIRC.H)})

\* The heights given to ax.bar, in the order of the calls.
bars(dic) ==
    <<Len(dic.MATISSE.AT.ft.L.LR), Len(dic.MATISSE.UT.ft.L.LR),
      Len(dic.MATISSE.AT.noft.L.LR), Len(dic.MATISSE.UT.noft.L.LR),
      Len(dic.MATISSE.AT.ft.N.LR), Len(dic.MATISSE.UT.ft.N.LR),
      Len(dic.MATISSE.AT.noft.N.LR), Len(dic.MATISSE.UT.noft.N.LR),
      Len(dic.GRAVITY.AT.MR), Len(dic.GRAVITY.UT.MR),
      Len(dic.PIONIER), Len(dic.PAVO), Len(dic.VEGA.LR), Len(dic.CLIMB),
      Len(dic.MIRC.H), Len(dic.MIRC.K), Len(dic.MYSTIC),
      Len(dic.CLASSIC.H), Len(dic.CLASSIC.K)>>

plot_histo_survey(dic, setlog) ==
    Returned([ymax |-> ymax(dic), bars |-> bars(dic),
              ylim |-> IF setlog THEN ymax(dic) * 2 ELSE ymax(dic) + 3])

\* The aggregates of the model: those of the surveys of one to three stars
\* that are in Simbad with an SED and are their own guide star.
HistoNames == <<"A", "B", "C">>
HistoProfiles == Profiles \cup {Mags(800, 800, 950, 620, 1200, 1200, 1200)}
HistoRecords(name) ==
    {[Name |-> name, Simbad |-> TRUE, SED |-> TRUE,
      Guiding_star |-> [kind |-> "str", str |-> "Science star", lists |-> <<<<>>, <<>>>>],
      Observability |-> [VLTI |-> v, CHARA |-> c], Ins |-> InsOf(m)] :
        v \in BOOLEAN, c \in BOOLEAN, m \in HistoProfiles}
HistoSurveys ==
    {<<a>> : a \in HistoRecords(HistoNames[1])}
    \cup {<<a, b>> : a \in HistoRecords(HistoNames[1]), b \in HistoRecords(HistoNames[2])}
    \cup {<<a, b, c>> : a \in HistoRecords(HistoNames[1]), b \in HistoRecords(HistoNames[2]),
                        c \in HistoRecords(HistoNames[3])}

InitHisto ==
    /\ fn = "plot_histo_survey"
    /\ args \in {[dic |-> count_survey(sv).val.dic, setlog |-> b] :
                    sv \in HistoSurveys, b \in BOOLEAN}
    /\ mag = NoMags /\ source = "commissioning" /\ check = FALSE
    /\ page = NoPage /\ cache = NoFile
    /\ survey = NoSurvey /\ calls = NoCalls
    /\ ret = NoRet
    /\ pc = "call"

PlotHistoSurvey ==
    /\ pc = "call" /\ fn = "plot_histo_survey"
    /\ ret' = plot_histo_survey(args.dic, args.setlog)
    /\ pc' = "done"
    /\ UNCHANGED <<fn, mag, source, check, page, cache, survey, args, calls>>

NextHisto == PlotHistoSurvey

HistoSpec == InitHisto /\ [][NextHisto]_vars
(***************************************************************************)
(* Properties                                                              *)
(***************************************************************************)
Done(f) == pc = "done" /\ fn = f
Num(m) == m # NaN
FF == [MR |-> FALSE, HR |-> FALSE]
FT == [MR |-> FALSE, HR |-> TRUE]
TT == [MR |-> TRUE, HR |-> TRUE]

\* C1: gravity_limit: for -4 <= magK <= -1, magK = -4 included, AT-HR is true
\* and AT-MR, UT-MR, UT-HR are false; for magK < -4 all four flags are false,
\* whatever magV is.
C1_GravityLowerBoundInclusive ==
    Done("gravity_limit") /\ Num(mag.K) =>
        /\ (mag.K >= -400 /\ mag.K <= -100) =>
               ret.val.AT.K = FT /\ ret.val.UT.K = FF
        /\ mag.K < -400 => ret.val.AT.K = FF /\ ret.val.UT.K = FF

C1_Witness ==
    Done("gravity_limit") /\ mag.K = -400 /\ mag.V = NaN /\ ret.val.AT.K.HR

\* The K-range table of gravity_limit, the first two bins parted at lo
\* (lo_in: whether lo itself belongs to the second bin).
GravityTable(k, lo_in) ==
    LET second == IF lo_in THEN k >= -400 /\ k <= -100 ELSE k > -400 /\ k <= -100
    IN  IF second THEN [UT |-> FF, AT |-> FT]
        ELSE IF k > -100 /\ k <= 100 THEN [UT |-> FF, AT |-> TT]
        ELSE IF k > 100 /\ k <= 400 THEN [UT |-> FT, AT |-> TT]
        ELSE IF k > 400 /\ k <= 800 THEN [UT |-> TT, AT |-> TT]
        ELSE IF k > 800 /\ k <= 900 THEN [UT |-> TT, AT |-> FF]
        ELSE [UT |-> FF, AT |-> FF]
\* The six bins, the second one closed at -4.
GravityBins(k) ==
    <<k < -400 \/ k > 900, k >= -400 /\ k <= -100, k > -100 /\ k <= 100,
      k > 100 /\ k <= 400, k > 400 /\ k <= 800, k > 800 /\ k <= 900>>

\* C2 as stated: the (MR,HR) pairs of the K-range table, with (F,F),(F,F) for
\* every magK <= -4 and (F,F),(F,T) on (-4,-1].
C2_TableAsStated ==
    Done("gravity_limit") /\ Num(mag.K) =>
        /\ ret.val.UT.K = GravityTable(mag.K, FALSE).UT
        /\ ret.val.AT.K = GravityTable(mag.K, FALSE).AT

\* C2 amended: the (MR,HR) pairs of the K-range table with the second bin closed
\* at -4: (F,F),(F,F) for magK < -4 and magK > 9, (F,F),(F,T) on [-4,-1], and
\* the other four bins as stated; exactly one of the six bins holds every magK.
C2_TableClosedAtMinus4 ==
    Done("gravity_limit") /\ Num(mag.K) =>
        /\ ret.val.UT.K = GravityTable(mag.K, TRUE).UT
        /\ ret.val.AT.K = GravityTable(mag.K, TRUE).AT
        /\ Cardinality({i \in 1..6 : GravityBins(mag.K)[i]}) = 1

C2_Witness ==
    Done("gravity_limit") /\ mag.K = 900 /\ ret.val.UT.K = TT /\ ret.val.AT.K = FF

\* The table matisse_limit works from, as the call's arguments choose it.
ChosenTable ==
    IF source = "ESO"
        THEN IF check THEN dic_web(page) ELSE cache.table
        ELSE limit_commissioning_matisse
\* Whether the chosen table could be obtained.
LoadFails == source = "ESO" /\ IF check THEN ~page.ok ELSE ~cache.present
MatisseDone == Done("matisse_limit") /\ ~ret.raised

\* The tier rules of the bands.
Tier3(m, b0, b1, b2) ==
    IF m <= b2 THEN [LR |-> TRUE, MR |-> TRUE, HR |-> TRUE]
    ELSE IF m <= b1 THEN [LR |-> TRUE, MR |-> TRUE, HR |-> FALSE]
    ELSE IF m <= b0 THEN [LR |-> TRUE, MR |-> FALSE, HR |-> FALSE]
    ELSE [LR |-> FALSE, MR |-> FALSE, HR |-> FALSE]
Tier2(m, b0, b1) ==
    IF m <= b1 THEN [LR |-> TRUE, HR |-> TRUE]
    ELSE IF m <= b0 THEN [LR |-> TRUE, HR |-> FALSE]
    ELSE [LR |-> FALSE, HR |-> FALSE]

\* C3: L band, in each of the four configurations, with [b0,b1,b2] the list the
\* slot is compared against and b2 < b1 < b0: the three-tier rule gives the
\* leaves (magL = b1 gives LR = MR = true, HR = false).
C3_LBandTiers ==
    MatisseDone /\ Num(mag.L) =>
        \A tel \in Tels, ft \in Modes :
            LET l == lim(ChosenTable, tel, ft, "L")
            IN  (l[3] < l[2] /\ l[2] < l[1] /\ l[1] # NaN) =>
                    ret.val[tel][ft].L = Tier3(mag.L, l[1], l[2], l[3])

C3_Witness ==
    /\ MatisseDone /\ source = "ESO" /\ ~check
    /\ mag.L = cache.table.at.ft.L[2]
    /\ cache.table.at.ft.L[3] < cache.table.at.ft.L[2]
    /\ cache.table.at.ft.L[2] < cache.table.at.ft.L[1]
    /\ ret.val.AT.ft.L = [LR |-> TRUE, MR |-> TRUE, HR |-> FALSE]

Complete(t) ==
    /\ \A k \in {"at", "ut"}, band \in MatBands :
          Len(t[k]["noft"][band]) >= IF band = "L" THEN 3 ELSE 2
    /\ Len(t.at.ft.L) >= 3
    /\ Len(t.at.ft.M) >= 2

\* C5: when the chosen table's list is empty for AT/ft/N, UT/ft/L, UT/ft/M or
\* UT/ft/N, the call does not fail on it and the slot's leaves are those of the
\* band's tier rule on the commissioning list of the slot, for every magnitude.
C5_FallbackToCommissioning ==
    Done("matisse_limit") /\ ~LoadFails /\ Complete(ChosenTable) =>
        /\ ~ret.raised
        /\ (Len(ChosenTable.at.ft.N) = 0 /\ Num(mag.N)) =>
               ret.val.AT.ft.N = Tier2(mag.N, 160, 10)
        /\ (Len(ChosenTable.ut.ft.L) = 0 /\ Num(mag.L)) =>
               ret.val.UT.ft.L = Tier3(mag.L, 1030, 880, 690)
        /\ (Len(ChosenTable.ut.ft.M) = 0 /\ Num(mag.M)) =>
               ret.val.UT.ft.M = Tier2(mag.M, 500, 500)
        /\ (Len(ChosenTable.ut.ft.N) = 0 /\ Num(mag.N)) =>
               ret.val.UT.ft.N = Tier2(mag.N, 460, 320)

C5_Witness ==
    /\ MatisseDone /\ source = "ESO" /\ check
    /\ Len(ChosenTable.at.ft.N) = 0 /\ mag.N = 160
    /\ ret.val.AT.ft.N = [LR |-> TRUE, HR |-> FALSE]

\* C6: the K gate: limK = {UT: true, AT: true} for magK <= 7.5, {UT: true,
\* AT: false} for 7.5 < magK <= 10, {UT: false, AT: false} for magK > 10; never
\* UT false with AT true.
C6_LimKGate ==
    MatisseDone =>
        /\ Num(mag.K) =>
               ret.val.limK = IF mag.K <= 750 THEN [UT |-> TRUE, AT |-> TRUE]
                              ELSE IF mag.K <= 1000 THEN [UT |-> TRUE, AT |-> FALSE]
                              ELSE [UT |-> FALSE, AT |-> FALSE]
        /\ ~(~ret.val.limK.UT /\ ret.val.limK.AT)

C6_Witness ==
    MatisseDone /\ mag.K = 751 /\ ret.val.limK = [UT |-> TRUE, AT |-> FALSE]

\* C7: for fixed magL, magM, magN and a fixed table, the AT and UT subtrees are
\* the same for every magK; the result holds nothing else but limK.
C7_LimKNotInBands ==
    MatisseDone =>
        /\ DOMAIN ret.val = {"AT", "UT", "limK"}
        /\ \A k \in Near({750, 1000}) \cup Coarse :
              LET r == matisse_limit(mag.L, mag.M, mag.N, k, source, check, page, cache)
              IN  ~r.raised /\ r.val.AT = ret.val.AT /\ r.val.UT = ret.val.UT

C7_Witness ==
    /\ MatisseDone /\ mag.K = 1001 /\ ret.val.limK = [UT |-> FALSE, AT |-> FALSE]
    /\ ret.val.AT.ft.L.LR /\ ret.val.UT.ft.L.HR /\ ~ret.val.UT.ft.N.LR

\* C8: chara_limit on numbers: Guiding = (min(magV, magR) <= 10) and the
\* ceilings of the instruments, all inclusive; VEGA HR => MR => LR.
C8_CharaCeilings ==
    Done("chara_limit") =>
        /\ (Num(mag.V) /\ Num(mag.R)) =>
               (ret.val.Guiding <=> (mag.V <= 1000 \/ mag.R <= 1000))
        /\ Num(mag.K) =>
               /\ ret.val.CLASSIC.K = (mag.K <= 650)
               /\ ret.val.CLIMB.K = (mag.K <= 600)
               /\ ret.val.MIRC.K = (mag.K <= 300)
               /\ ret.val.MYSTIC.K = (mag.K <= 600)
        /\ Num(mag.H) =>
               /\ ret.val.CLASSIC.H = (mag.H <= 700)
               /\ ret.val.MIRC.H = (mag.H <= 650)
        /\ Num(mag.R) => ret.val.PAVO.R = (mag.R <= 700)
        /\ Num(mag.V) =>
               /\ ret.val.CLASSIC.V = (mag.V <= 1000)
               /\ ret.val.VEGA.HR = (mag.V <= 420)
               /\ ret.val.VEGA.MR = (mag.V <= 580)
               /\ ret.val.VEGA.LR = (mag.V <= 720)
        /\ ret.val.VEGA.HR => ret.val.VEGA.MR
        /\ ret.val.VEGA.MR => ret.val.VEGA.LR

C8_Witness ==
    /\ Done("chara_limit") /\ mag.K = 600 /\ ret.val.CLIMB.K
    /\ ~ret.val.MIRC.K /\ ret.val.CLASSIC.K

AllFalse(leaves) == \A res \in DOMAIN leaves : leaves[res] = FALSE

\* C9: not-a-number magnitudes: the four functions return without raising, and
\* every leaf whose rule reads a NaN magnitude is false, CHARA Guiding included
\* when the other magnitude is <= 10; NaN magV gives the label 'TooFaint'.
C9_NaNComparesFalse ==
    /\ Done("gravity_limit") =>
          /\ ~ret.raised
          /\ mag.K = NaN => ret.val.UT.K = FF /\ ret.val.AT.K = FF
          /\ mag.V = NaN => ret.val.V_cond = "TooFaint"
    /\ Done("pionier_limit") =>
          /\ ~ret.raised
          /\ mag.H = NaN => ~ret.val.H
    /\ Done("chara_limit") =>
          /\ ~ret.raised
          /\ mag.K = NaN => /\ ~ret.val.CLASSIC.K /\ ~ret.val.CLIMB.K
                            /\ ~ret.val.MIRC.K /\ ~ret.val.MYSTIC.K
          /\ mag.H = NaN => ~ret.val.CLASSIC.H /\ ~ret.val.MIRC.H
          /\ mag.R = NaN => ~ret.val.PAVO.R /\ ~ret.val.Guiding
          /\ mag.V = NaN => /\ ~ret.val.CLASSIC.V /\ AllFalse(ret.val.VEGA)
                            /\ ~ret.val.Guiding
    /\ Done("matisse_limit") =>
          /\ ret.raised => LoadFails \/ ~Complete(ChosenTable)
          /\ ~ret.raised =>
                /\ mag.K = NaN => ret.val.limK = [UT |-> FALSE, AT |-> FALSE]
                /\ \A tel \in Tels, ft \in Modes, band \in MatBands :
                      mag[band] = NaN => AllFalse(ret.val[tel][ft][band])

C9_Witness ==
    /\ Done("chara_limit") /\ mag.V = NaN /\ mag.R = 700
    /\ ~ret.val.Guiding /\ ret.val.PAVO.R

\* The records of the survey, and the names in a list.
StarOf(i) == survey[i]
Names(list) == {list[j] : j \in 1..Len(list)}
\* Guide availability: the literal 'Science star', or a candidate list not empty.
GuideAvailable(rec) ==
    \/ rec.Guiding_star.kind = "str" /\ rec.Guiding_star.str = "Science star"
    \/ rec.Guiding_star.kind = "list"
       /\ \E j \in 1..2 : rec.Guiding_star.lists[j] # <<>>

\* C10: for every Simbad-matched star and every MATISSE, GRAVITY and PIONIER
\* bucket, the star's name is in the bucket iff Observability.VLTI, the
\* guide-availability boolean and the star's leaf for the bucket are all true.
C10_VLTIBuckets ==
    Done("count_survey") /\ ~ret.raised =>
        \A i \in 1..Len(survey) :
            LET rec == StarOf(i)
                ok == rec.Observability.VLTI /\ GuideAvailable(rec)
            IN  rec.Simbad =>
                    /\ \A tel \in Tels, ft \in Modes, band \in {"L", "N"}, res \in {"LR", "HR"} :
                          rec.Name \in Names(ret.val.dic.MATISSE[tel][ft][band][res])
                              <=> (ok /\ rec.Ins.MATISSE[tel][ft][band][res])
                    /\ \A tel \in Tels, res \in {"MR", "HR"} :
                          rec.Name \in Names(ret.val.dic.GRAVITY[tel][res])
                              <=> (ok /\ rec.Ins.GRAVITY[tel].K[res])
                    /\ rec.Name \in Names(ret.val.dic.PIONIER)
                              <=> (ok /\ rec.Ins.PIONIER.H)

C10_Witness ==
    /\ Done("count_survey") /\ ~ret.raised /\ Len(survey) = 2
    /\ survey[1].Simbad /\ survey[2].Simbad
    /\ survey[2].Guiding_star.kind = "list" /\ survey[2].Guiding_star.lists[1] = <<>>
    /\ ret.val.dic.MATISSE.AT.ft.N.HR = <<"B">>
    /\ ret.val.dic.GRAVITY.UT.MR = <<"A">>
    /\ ret.val.dic.PIONIER = <<"B">>

\* Whether the CHARA buckets of the filled VEGA, MIRC, CLASSIC, PAVO, MYSTIC
\* and CLIMB entries hold the star exactly when cond(leaf) holds.
CharaBucketsAre(rec, dic, cond(_)) ==
    /\ \A band \in {"H", "K"} :
          rec.Name \in Names(dic.MIRC[band]) <=> cond(rec.Ins.CHARA.MIRC[band])
    /\ \A res \in {"LR", "HR"} :
          rec.Name \in Names(dic.VEGA[res]) <=> cond(rec.Ins.CHARA.VEGA[res])
    /\ \A band \in {"V", "H", "K"} :
          rec.Name \in Names(dic.CLASSIC[band]) <=> cond(rec.Ins.CHARA.CLASSIC[band])
    /\ rec.Name \in Names(dic.PAVO) <=> cond(rec.Ins.CHARA.PAVO.R)
    /\ rec.Name \in Names(dic.MYSTIC) <=> cond(rec.Ins.CHARA.MYSTIC.K)
    /\ rec.Name \in Names(dic.CLIMB) <=> cond(rec.Ins.CHARA.CLIMB.K)

\* C11 as stated: for every Simbad-matched star and every CHARA bucket, the
\* star's name is in the bucket iff Observability.CHARA, the guide-availability
\* boolean, the star's leaf for the bucket and the tip-tilt Guiding flag are
\* all true.
C11_CharaBucketsWithGuide ==
    Done("count_survey") /\ ~ret.raised =>
        \A i \in 1..Len(survey) :
            LET rec == StarOf(i)
                cond(leaf) == /\ rec.Observability.CHARA /\ GuideAvailable(rec)
                              /\ leaf /\ rec.Ins.CHARA.Guiding
            IN  rec.Simbad => CharaBucketsAre(rec, ret.val.dic, cond)

\* C11 (amended): for every Simbad-matched star and every CHARA bucket that
\* is filled (MIRC H and K, VEGA LR and HR, CLASSIC V, H and K, PAVO, MYSTIC,
\* CLIMB), the star's name is in the bucket iff Observability.CHARA, the
\* star's leaf for the bucket and the tip-tilt Guiding flag are all true;
\* the guide-availability boolean plays no part.
C11_CharaBuckets ==
    Done("count_survey") /\ ~ret.raised =>
        \A i \in 1..Len(survey) :
            LET rec == StarOf(i)
                cond(leaf) == rec.Observability.CHARA /\ leaf /\ rec.Ins.CHARA.Guiding
            IN  rec.Simbad => CharaBucketsAre(rec, ret.val.dic, cond)

\* A star without guide star in a CHARA bucket, next to one kept out by its
\* leaf.
C11_Witness ==
    /\ Done("count_survey") /\ ~ret.raised /\ Len(survey) = 2
    /\ survey[1].Simbad /\ survey[2].Simbad
    /\ survey[1].Guiding_star.kind = "none" /\ survey[1].Observability.CHARA
    /\ survey[2].Observability.CHARA /\ ~survey[2].Ins.CHARA.MIRC.K
    /\ ret.val.dic.MIRC.K = <<"A">>
    /\ ret.val.dic.CLIMB = <<"A", "B">>

\* Every bucket of the aggregate, and whether a list holds no name twice.
Buckets(dic) ==
    {dic.MATISSE[tel][ft][band][res] :
        tel \in Tels, ft \in Modes, band \in {"L", "N"}, res \in {"LR", "HR"}}
    \cup {dic.GRAVITY[tel][res] : tel \in Tels, res \in {"MR", "HR"}}
    \cup {dic.MIRC[band] : band \in {"H", "K"}}
    \cup {dic.VEGA[res] : res \in {"LR", "MR", "HR"}}
    \cup {dic.CLASSIC[band] : band \in {"V", "H", "K"}}
    \cup {dic.PIONIER, dic.PAVO, dic.MYSTIC, dic.CLIMB}
NoRepeat(list) == \A j, k \in 1..Len(list) : list[j] = list[k] => j = k
Matched == {survey[i].Name : i \in {j \in 1..Len(survey) : survey[j].Simbad}}
Unmatched == {survey[i].Name : i \in {j \in 1..Len(survey) : ~survey[j].Simbad}}

\* C12: count_survey partitions the stars by their Simbad flag: the unmatched
\* list holds exactly the names of the stars whose Simbad flag is false, each
\* once; every bucket holds only names of matched stars, each at most once;
\* and no Ins or Guiding_star of an unmatched star is read, so that their
\* being None raises nothing.
C12_PartitionBySimbad ==
    Done("count_survey") /\ Len(survey) > 0 =>
        /\ ~ret.raised
        /\ Names(ret.val.list_no_simbad) = Unmatched
        /\ NoRepeat(ret.val.list_no_simbad)
        /\ \A b \in Buckets(ret.val.dic) : Names(b) \subseteq Matched /\ NoRepeat(b)

C12_Witness ==
    /\ Done("count_survey") /\ Len(survey) = 2
    /\ ~survey[1].Simbad /\ ~survey[1].Ins.present /\ survey[2].Simbad
    /\ ~ret.raised
    /\ ret.val.list_no_simbad = <<"A">>
    /\ ret.val.dic.PIONIER = <<"B">> /\ ret.val.dic.PAVO = <<"B">>

\* The stars that are Simbad-matched, have an SED and are observable from a site.
Observable(site) ==
    {i \in 1..Len(survey) :
        survey[i].Simbad /\ survey[i].SED /\ survey[i].Observability[site]}

\* C13: the VLTI (CHARA) count of the summary is the number of stars that are
\* Simbad-matched, have an SED and have Observability.VLTI (CHARA) true; each
\* percentage is 100 x count / total number of stars; each count is at most
\* the total and each percentage lies between 0 and 100.
C13_SummaryCounts ==
    Done("count_survey") /\ ~ret.raised =>
        /\ ret.val.n_star = Len(survey)
        /\ ret.val.n_vlti = Cardinality(Observable("VLTI"))
        /\ ret.val.n_chara = Cardinality(Observable("CHARA"))
        /\ ret.val.pct_vlti = [num |-> 100 * ret.val.n_vlti, den |-> Len(survey)]
        /\ ret.val.pct_chara = [num |-> 100 * ret.val.n_chara, den |-> Len(survey)]
        /\ ret.val.n_vlti <= Len(survey) /\ ret.val.n_chara <= Len(survey)
        /\ \A pct \in {ret.val.pct_vlti, ret.val.pct_chara} :
              pct.den > 0 /\ 0 <= pct.num /\ pct.num <= 100 * pct.den

\* One star of two counted for the VLTI, the other observable but without SED.
C13_Witness ==
    /\ Done("count_survey") /\ ~ret.raised /\ Len(survey) = 2
    /\ survey[1].Simbad /\ ~survey[1].SED /\ survey[1].Observability.VLTI
    /\ survey[2].Simbad /\ survey[2].SED /\ survey[2].Observability.VLTI
    /\ ~survey[2].Observability.CHARA /\ ~survey[1].Observability.CHARA
    /\ ret.val.n_vlti = 1 /\ ret.val.pct_vlti = [num |-> 100, den |-> 2]
    /\ ret.val.n_chara = 0

\* C19: the GRAVITY guide label depends on magV alone: 'AT' when magV <= 11,
\* 'UT' when 11 < magV <= 16, 'TooFaint' when magV > 16; one label is
\* returned, the same for every magK.
C19_GravityGuideLabel ==
    Done("gravity_limit") =>
        /\ ~ret.raised
        /\ ret.val.V_cond \in {"AT", "UT", "TooFaint"}
        /\ ret.val.V_cond = "AT" <=> Le(mag.V, 1100)
        /\ ret.val.V_cond = "UT" <=> (Gt(mag.V, 1100) /\ Le(mag.V, 1600))
        /\ Gt(mag.V, 1600) => ret.val.V_cond = "TooFaint"
        /\ \A k \in Near({-400, 900}) \cup Coarse :
              gravity_limit(mag.V, k).V_cond = ret.val.V_cond

C19_Witness ==
    /\ Done("gravity_limit") /\ mag.V = 1100 /\ mag.K = 901
    /\ ret.val.V_cond = "AT" /\ ~ret.val.AT.K.MR

\* C20: pionier_limit gives H = true iff -1 <= magH <= 9, whatever magV is.
C20_PionierRange ==
    Done("pionier_limit") =>
        /\ ~ret.raised
        /\ ret.val.H <=> (Ge(mag.H, -100) /\ Le(mag.H, 900))
        /\ \A v \in Near({1100, 1600}) \cup Coarse :
              pionier_limit(mag.H, v) = ret.val

C20_Witness ==
    /\ Done("pionier_limit") /\ mag.H = -100 /\ mag.V = NaN /\ ret.val.H

\* C17: MagToJy never signals failure: an unknown band gives NaN in the
\* forward and in the reverse direction, a flux that is not positive gives
\* NaN in the reverse direction, and no exception reaches the caller.
C17_MagToJyNeverRaises ==
    Done("MagToJy") =>
        /\ ~ret.raised
        /\ args.band \notin conv_flux => ret.val = NaN
        /\ args.reverse /\ args.m # NaN /\ args.m <= 0 => ret.val = NaN

\* The file left by the successful refreshes among the first n calls: the
\* table the last of them returned, or no file.
RECURSIVE Stored(_)
Stored(n) ==
    IF n = 0 THEN NoFile
    ELSE IF calls[n].check /\ calls[n].parsed /\ ~calls[n].raised THEN File(calls[n].val)
    ELSE Stored(n - 1)

\* C16: over any sequence of limit_ESO_matisse_web calls, the cache is written
\* only by a refresh whose fetch and parse succeeded and then holds the table
\* that refresh returned; a failing refresh and a call with check = False
\* leave it as it was; a call with check = False returns the table stored by
\* the most recent successful refresh, and raises, the cache still absent,
\* when none has succeeded yet.
C16_CacheFollowsRefreshes ==
    fn = "limit_ESO_matisse_web" =>
        /\ cache = Stored(Len(calls))
        /\ \A n \in 1..Len(calls) :
              /\ calls[n].check => (calls[n].raised <=> ~calls[n].parsed)
              /\ ~calls[n].check =>
                    IF Stored(n - 1).present
                        THEN ~calls[n].raised /\ calls[n].val = Stored(n - 1).table
                        ELSE calls[n].raised /\ Stored(n) = NoFile

\* A load that fails for want of a file, a refresh that succeeds, a refresh
\* that fails, and a load that returns the table of the successful refresh.
C16_Witness ==
    /\ fn = "limit_ESO_matisse_web" /\ Len(calls) = 4
    /\ ~calls[1].check /\ calls[1].raised
    /\ calls[2].check /\ ~calls[2].raised
    /\ calls[3].check /\ calls[3].raised
    /\ ~calls[4].check /\ ret = [raised |-> FALSE, val |-> calls[2].val]
    /\ cache = File(calls[2].val)

\* C14: plot_VLTI and plot_CHARA, given a record whose Ins is None, print one
\* error line naming the star, return None, create no figure and read none of
\* Mag, Observability, Guiding_star and Gaia_dr2, so that nothing is raised
\* whatever those fields hold.
C14_NoInsNoFigure ==
    (Done("plot_VLTI") \/ Done("plot_CHARA")) /\ ~args.data.Ins.present =>
        /\ ~ret.raised
        /\ ~ret.val.fig
        /\ Len(ret.val.printed) = 1 /\ ret.val.printed[1].star = args.data.Name
        /\ ret.val.reads \cap {"Mag", "Observability", "Guiding_star", "Gaia_dr2"} = {}

C14_Witness ==
    /\ Done("plot_VLTI") /\ ~args.data.Ins.present /\ args.data.fields = "bare"
    /\ ~ret.raised /\ ~ret.val.fig /\ Len(ret.val.printed) = 1

\* The label the guide-star badge is meant to show.
GuideLabel(data) ==
    LET g == data.Guiding_star
    IN  IF g.kind = "str" /\ g.str = "Science star" THEN "Science"
        ELSE IF g.kind = "list" /\ g.lists[1] # <<>> THEN "Off axis"
        ELSE IF g.kind = "list" /\ g.lists[2] # <<>> THEN "Off axis*"
        ELSE "X"

\* C15: the guide-star badge of plot_VLTI shows 'Science' (green) exactly for
\* the literal 'Science star', 'Off axis' (yellow) when the first candidate
\* list is not empty, 'Off axis*' (yellow) when the first is empty and the
\* second is not, and 'X' (red) otherwise: both lists empty, no guide star,
\* any other string.  The classification raises for none of these shapes.
C15_GuideBadge ==
    Done("plot_VLTI") /\ args.data.Ins.present =>
        /\ ~ret.raised
        /\ ret.val.aff_guide = GuideLabel(args.data)
        /\ ret.val.c_guid = CASE GuideLabel(args.data) = "Science" -> "#8ee38e"
                              [] GuideLabel(args.data) = "X" -> "#ed929d"
                              [] OTHER -> "#fbe570"

\* C18: the upper bound of the y axis of plot_histo_survey is M + 3 in linear
\* mode and 2 x M in logarithmic mode, M being the largest count over all the
\* bars drawn; hence in linear mode every bar is strictly lower than the
\* bound.
C18_YAxisBound ==
    Done("plot_histo_survey") =>
        LET M == np_max(Range(ret.val.bars))
        IN  /\ ~ret.raised
            /\ ret.val.ylim = IF args.setlog THEN 2 * M ELSE M + 3
            /\ ~args.setlog => \A j \in 1..Len(ret.val.bars) : ret.val.bars[j] < ret.val.ylim

\* The list a slot is to be compared against under the uniform rule: the
\* chosen table's list when it is not empty, the commissioning list otherwise.
UniformLim(t, tel, ft, band) ==
    IF t[LowerKey(tel)][ft][band] # <<>>
        THEN t[LowerKey(tel)][ft][band]
        ELSE limit_commissioning_matisse[LowerKey(tel)][ft][band]

C22_CharaMarkers ==
    Done("plot_CHARA") /\ args.data.Ins.present =>
        LET ins == args.data.Ins.CHARA
            cond == args.data.Observability.CHARA /\ ins.Guiding
            m == ret.val.markers
        IN  /\ ~ret.raised /\ ret.val.fig
            /\ \A res \in {"LR", "MR", "HR"} : m.VEGA[res] = color(ins.VEGA[res] /\ cond)
            /\ m.PAVO = color(ins.PAVO.R /\ cond)
            /\ m.MIRC = color(ins.MIRC.H /\ cond)
            /\ m.CLIMB = color(ins.CLIMB.K /\ cond)
            /\ \A band \in {"H", "K"} : m.CLASSIC[band] = color(ins.CLASSIC[band] /\ cond)

\* C23: the Count Result has the shape of the Observability Result: there is
\* a bucket for every boolean leaf of a star's Ins tree, the MATISSE M band,
\* the MATISSE L band MR resolution and VEGA MR included, and every bucket
\* receives every star that satisfies the bucket rule for its leaf; so the
\* VEGA MR bucket holds every Simbad-matched star whose Observability.CHARA,
\* tip-tilt Guiding flag and VEGA MR leaf are all true.
C23_CountResultShape ==
    Done("count_survey") /\ ~ret.raised =>
        /\ \A tel \in Tels, ft \in Modes :
              /\ DOMAIN ret.val.dic.MATISSE[tel][ft] = MatBands
              /\ DOMAIN ret.val.dic.MATISSE[tel][ft].L = {"LR", "MR", "HR"}
        /\ DOMAIN ret.val.dic.VEGA = {"LR", "MR", "HR"}
        /\ \A i \in 1..Len(survey) :
              LET rec == StarOf(i)
              IN  rec.Simbad /\ rec.Observability.CHARA /\ rec.Ins.CHARA.Guiding
                      /\ rec.Ins.CHARA.VEGA.MR
                  => rec.Name \in Names(ret.val.dic.VEGA.MR)

\* C24: plot_mat draws, for a result of matisse_limit and each (telescope,
\* mode, band), one marker per resolution leaf that exists: LR, MR and HR for
\* L, LR and HR for M and N, the missing MR being passed over without ending
\* the later markers; a marker is green iff its leaf and Observability.VLTI
\* are true, red otherwise.
C24_MatisseMarkers ==
    Done("plot_VLTI") /\ args.data.Ins.present /\ ~ret.raised =>
        \A tel \in Tels, ft \in Modes, band \in MatBands, res \in {"LR", "MR", "HR"} :
            ret.val.markers.MATISSE[tel][ft][band][res] =
                IF band = "L" \/ res # "MR"
                    THEN color(args.data.Ins.MATISSE[tel][ft][band][res]
                               /\ args.data.Observability.VLTI)
                    ELSE "no marker"

C24_Witness ==
    /\ Done("plot_VLTI") /\ ~ret.raised /\ ret.val.fig
    /\ args.data.Observability.VLTI
    /\ ret.val.markers.MATISSE.AT.noft.L = [LR |-> "g", MR |-> "g", HR |-> "#e23449"]
    /\ ret.val.markers.MATISSE.AT.noft.M = [LR |-> "g", MR |-> "no marker", HR |-> "g"]

\* C25: tier nesting holds in every matisse_limit result: for any magnitudes,
\* NaN included, and any breakpoint lists, ordered or not, in each of the
\* four configurations the L band has HR => MR => LR and the M and N bands
\* have HR => LR; and every configuration, the ft ones included, carries the
\* full leaf set (L: LR, MR, HR; M and N: LR, HR), each leaf a boolean.
C25_TierNesting ==
    MatisseDone =>
        \A tel \in Tels, ft \in Modes :
            LET c == ret.val[tel][ft]
            IN  /\ DOMAIN c = MatBands
                /\ DOMAIN c.L = {"LR", "MR", "HR"}
                /\ DOMAIN c.M = {"LR", "HR"} /\ DOMAIN c.N = {"LR", "HR"}
                /\ \A band \in MatBands : \A res \in DOMAIN c[band] : c[band][res] \in BOOLEAN
                /\ (c.L.HR => c.L.MR) /\ (c.L.MR => c.L.LR)
                /\ (c.M.HR => c.M.LR) /\ (c.N.HR => c.N.LR)

\* A table that is not ordered: one of its unordered lists is read with both
\* leaves true, and a fringe-tracked band is in its low-resolution tier only.
C25_Witness ==
    /\ MatisseDone /\ source = "ESO" /\ check /\ page = Page2
    /\ \E tel \in Tels, ft \in Modes, band \in {"M", "N"} :
          LET l == ChosenTable[LowerKey(tel)][ft][band]
          IN  /\ Len(l) = 2 /\ l[1] < l[2]
              /\ ret.val[tel][ft][band].LR /\ ret.val[tel][ft][band].HR
    /\ \E tel \in Tels, band \in {"M", "N"} :
          ret.val[tel].ft[band].LR /\ ~ret.val[tel].ft[band].HR

\* The buckets of the VLTI instruments and those of the CHARA instruments.
VLTIBuckets(dic) ==
    {dic.MATISSE[tel][ft][band][res] :
        tel \in Tels, ft \in Modes, band \in {"L", "N"}, res \in {"LR", "HR"}}
    \cup {dic.GRAVITY[tel][res] : tel \in Tels, res \in {"MR", "HR"}}
    \cup {dic.PIONIER}
CHARABuckets(dic) == Buckets(dic) \ VLTIBuckets(dic)
Counted(site) == {survey[i].Name : i \in Observable(site)}

\* C26: the summary and the buckets of count_survey agree: every star in a
\* VLTI bucket is one of the stars counted in the reported VLTI total, every
\* star in a CHARA bucket is one counted in the CHARA total, and so no bucket
\* is larger than the corresponding total, for every survey, stars without
\* SED included.
C26_SummaryCoversBuckets ==
    Done("count_survey") /\ ~ret.raised =>
        /\ \A b \in VLTIBuckets(ret.val.dic) :
              Names(b) \subseteq Counted("VLTI") /\ Len(b) <= ret.val.n_vlti
        /\ \A b \in CHARABuckets(ret.val.dic) :
              Names(b) \subseteq Counted("CHARA") /\ Len(b) <= ret.val.n_chara

\* The names of the stars that have an SED.
WithSED == {survey[i].Name : i \in {j \in 1..Len(survey) : survey[j].SED}}

\* C26 (amended): among the stars that have an SED, every star in a VLTI
\* bucket is one counted in the reported VLTI total and every star in a CHARA
\* bucket is one counted in the CHARA total, so no bucket holds more stars
\* with SED than the corresponding total.  The buckets do not look at SED: a
\* star without SED can be in a bucket without being counted.
C26_SummaryCoversBucketsWithSED ==
    Done("count_survey") /\ ~ret.raised =>
        /\ \A b \in VLTIBuckets(ret.val.dic) :
              /\ Names(b) \cap WithSED \subseteq Counted("VLTI")
              /\ Cardinality(Names(b) \cap WithSED) <= ret.val.n_vlti
        /\ \A b \in CHARABuckets(ret.val.dic) :
              /\ Names(b) \cap WithSED \subseteq Counted("CHARA")
              /\ Cardinality(Names(b) \cap WithSED) <= ret.val.n_chara

\* Two stars in the GRAVITY bucket, one of them without SED and not counted.
C26_Witness ==
    /\ Done("count_survey") /\ ~ret.raised /\ Len(survey) = 2
    /\ ~survey[1].SED /\ survey[2].SED
    /\ ret.val.dic.GRAVITY.AT.MR = <<"A", "B">>
    /\ ret.val.n_vlti = 1

\* C27 as stated: with source = commissioning, for every telescope class,
\* band, resolution leaf and magnitude, a leaf that is true in the noft
\* configuration is true in the ft configuration of that telescope and band.
C27_FringeTrackingNeverLoses ==
    MatisseDone /\ source = "commissioning" =>
        \A tel \in Tels, band \in MatBands : \A res \in DOMAIN ret.val[tel].noft[band] :
            ret.val[tel].noft[band][res] => ret.val[tel].ft[band][res]

\* C27 (amended): with source = commissioning, a leaf that is true in the
\* noft configuration is true in the ft configuration of that telescope and
\* band, except the LR leaf of the UT M band: it is true without and false
\* with fringe tracking exactly when 5 < magM <= 6.03.
C27_FringeTrackingLosesUTMOnly ==
    MatisseDone /\ source = "commissioning" =>
        /\ \A tel \in Tels, band \in MatBands : \A res \in DOMAIN ret.val[tel].noft[band] :
              <<tel, band, res>> # <<"UT", "M", "LR">> =>
                  (ret.val[tel].noft[band][res] => ret.val[tel].ft[band][res])
        /\ (ret.val.UT.noft.M.LR /\ ~ret.val.UT.ft.M.LR)
              <=> (Gt(mag.M, 500) /\ Le(mag.M, 603))

C27_Witness ==
    /\ MatisseDone /\ source = "commissioning" /\ mag.M = 501
    /\ ret.val.UT.noft.M.LR /\ ~ret.val.UT.ft.M.LR
    /\ ret.val.UT.noft.L.LR /\ ret.val.UT.ft.L.HR /\ ~ret.val.UT.noft.L.MR

====
